---------------------------- MODULE Spec2Model ----------------------------
(***************************************************************************)
(* Model of the voice-ai-agent Turn Orchestrator:                          *)
(*   VoiceAgent      (src/src/core/agent.py)                               *)
(*   RuleProcessor   (src/src/core/rule_processor.py)                      *)
(*   ContextManager  (src/src/core/context_manager.py)                     *)
(*   HybridLLM       (src/src/llm/hybrid_llm.py)                           *)
(*   ToolRegistry    (src/src/tools/tool_registry.py)                      *)
(*                                                                         *)
(* Strings of the program are modelled by short ASCII names.  A backend    *)
(* text is a sequence of tokens (marker, braces, key/value items, prose),  *)
(* and the regular expressions and the JSON parser of the source are       *)
(* operators on token sequences.                                           *)
(***************************************************************************)
EXTENDS Integers, Sequences, FiniteSets, TLC

VARIABLES
    is_initialized,   \* VoiceAgent.is_initialized
    messages,         \* ContextManager.messages
    latest_email_id,  \* ContextManager.latest_email_id
    now,              \* datetime.now(), in hours
    llm_initialized,  \* HybridLLM.is_initialized
    providers,        \* HybridLLM.providers[name]: is_available, model
    config,           \* HybridLLM.config
    environ,          \* os.environ: PRIMARY_LLM, FALLBACK_LLM, PRIVACY_MODE
    rules,            \* RuleProcessor.rules
    initialized,      \* RuleProcessor.initialized
    tools_initialized,\* ToolRegistry.is_initialized
    turns,            \* number of operations applied so far
    obs,              \* what the last operation did and returned
    max_messages,     \* ContextManager.max_messages
    email_state,      \* ContextManager.email_state
    connection_of,    \* the client connection whose handler made each call of process_text
    status_callback,  \* VoiceAgent.status_callback: the connection its closure sends to
    active_connections, \* WebSocketManager.active_connections
    pc,               \* where each voice connection's handler stands
    auth_states       \* gmail_auth.auth_states: state token -> session id

vars == <<is_initialized, messages, latest_email_id, now, llm_initialized,
          providers, config, environ, rules, initialized,
          tools_initialized, turns, obs, max_messages, email_state, connection_of,
          status_callback, active_connections, pc, auth_states>>

\* the state of the endpoints of main.py and gmail_auth.py
EndpointVars == <<status_callback, active_connections, pc, auth_states>>

-----------------------------------------------------------------------------
(* Bounds of the model *)

MaxTurns == 3

-----------------------------------------------------------------------------
(* Action Requests: {"name": ..., "parameters": {...}} *)

Absent == "<absent>"
None == "<None>"

ParamKeys == {"action", "max_results", "message_id", "body", "query", "to"}

EmptyParams == [k \in ParamKeys |-> Absent]

Params(kvs) == [k \in ParamKeys |->
                  IF \E p \in kvs : p[1] = k
                  THEN (CHOOSE p \in kvs : p[1] = k)[2]
                  ELSE Absent]

\* a dict as json.loads returns it: the "name" key, the "parameters" object
\* and the other top-level keys
Dict(hasName, name, hasParameters, parameters, top) ==
    [hasName |-> hasName, name |-> name, hasParameters |-> hasParameters,
     parameters |-> parameters, top |-> top]

Request(name, kvs) == Dict(TRUE, name, TRUE, Params(kvs), EmptyParams)

\* tool_call.get("name"), tool_call.get("parameters", {})
NameOf(call) == IF call.hasName THEN call.name ELSE Absent
ParametersOf(call) == IF call.hasParameters THEN call.parameters ELSE EmptyParams

-----------------------------------------------------------------------------
(* Backend text as tokens *)

\* an item "k": v of the text; f is the form of the value: "plain" is the
\* form the salvage pattern of the key matches (a quoted string, bare digits
\* for max_results), "odd" a JSON value of another form (digits in quotes for
\* max_results, a number or null for a string field), "bare" an unquoted word
Item(k, v, f) == [k |-> k, v |-> v, f |-> f]
Tok(k, v) == Item(k, v, "plain")
MARK == Tok("TOOL_CALL:", "")
LB == Tok("{", "")
RB == Tok("}", "")
PROSE == Tok("prose", "")
BAD == Tok("bad", "")
PARAMETERS == Tok("parameters", "")
KV(k, v) == Tok(k, v)

RECURSIVE SkipWhile(_, _, _)
\* the index after the longest run of tokens from i whose kind is not in stop
SkipWhile(s, i, stop) ==
    IF i > Len(s) \/ s[i].k \in stop THEN i ELSE SkipWhile(s, i + 1, stop)

\* \}? : the closing brace is taken when it is there
OptClose(s, j) == IF j <= Len(s) /\ s[j].k = "}" THEN j ELSE j - 1

\* \{[^}]*\}?  matched at the brace s[i]; the index of the last token matched
PatternEnd(s, i) == OptClose(s, SkipWhile(s, i + 1, {"}"}))

RECURSIVE InnerGroups(_, _)
\* (?:\{[^{}]*\})*  from j; the index after the last complete group
InnerGroups(s, j) ==
    IF j <= Len(s) /\ s[j].k = "{"
    THEN LET e == SkipWhile(s, j + 1, {"{", "}"})
         IN  IF e <= Len(s) /\ s[e].k = "}" THEN InnerGroups(s, e + 1) ELSE j
    ELSE j

\* \{[^{}]*(?:\{[^{}]*\})*[^}]*\}?  matched at the brace s[i]
MultilinePatternEnd(s, i) ==
    LET a == SkipWhile(s, i + 1, {"{", "}"})
        b == InnerGroups(s, a)
    IN  OptClose(s, SkipWhile(s, b, {"}"}))

RECURSIVE FindAll(_, _, _)
\* re.findall: the captures of the non-overlapping matches, left to right;
\* multi selects the second pattern
FindAll(s, p, multi) ==
    IF p >= Len(s) THEN << >>
    ELSE IF s[p].k = "TOOL_CALL:" /\ s[p + 1].k = "{"
         THEN LET e == IF multi THEN MultilinePatternEnd(s, p + 1)
                                ELSE PatternEnd(s, p + 1)
              IN  <<SubSeq(s, p + 1, e)>> \o FindAll(s, e + 1, multi)
         ELSE FindAll(s, p + 1, multi)

Range(f) == {f[i] : i \in DOMAIN f}

\* set(matches + multiline_matches)
AllMatches(content) ==
    Range(FindAll(content, 1, FALSE)) \cup Range(FindAll(content, 1, TRUE))

-----------------------------------------------------------------------------
(* json.loads on a candidate *)

EmptyDict == Dict(FALSE, "", FALSE, EmptyParams, EmptyParams)
Failed == [ok |-> FALSE, dict |-> EmptyDict]

RECURSIVE ParamMembers(_, _, _)
\* the members of the "parameters" object, up to its closing brace
ParamMembers(s, i, acc) ==
    IF i > Len(s) THEN [ok |-> FALSE, next |-> i, p |-> acc]
    ELSE IF s[i].k = "}" THEN [ok |-> TRUE, next |-> i + 1, p |-> acc]
    ELSE IF s[i].k \in ParamKeys /\ s[i].f # "bare"
         THEN ParamMembers(s, i + 1, [acc EXCEPT ![s[i].k] = s[i].v])
         ELSE [ok |-> FALSE, next |-> i, p |-> acc]

RECURSIVE Members(_, _, _)
\* the members of the top-level object; anything after its closing brace,
\* prose, a marker or a broken fragment is a JSONDecodeError
Members(s, i, d) ==
    IF i > Len(s) THEN Failed
    ELSE IF s[i].k = "}"
         THEN IF i = Len(s) THEN [ok |-> TRUE, dict |-> d] ELSE Failed
    ELSE IF s[i].k = "name" /\ s[i].f # "bare"
         THEN Members(s, i + 1, [d EXCEPT !.hasName = TRUE, !.name = s[i].v])
    ELSE IF s[i].k \in ParamKeys /\ s[i].f # "bare"
         THEN Members(s, i + 1, [d EXCEPT !.top[s[i].k] = s[i].v])
    ELSE IF s[i].k = "parameters" /\ i + 1 <= Len(s) /\ s[i + 1].k = "{"
         THEN LET r == ParamMembers(s, i + 2, EmptyParams)
              IN  IF r.ok
                  THEN Members(s, r.next,
                               [d EXCEPT !.hasParameters = TRUE, !.parameters = r.p])
                  ELSE Failed
    ELSE Failed

JsonLoads(s) == IF Len(s) >= 1 /\ s[1].k = "{" THEN Members(s, 2, EmptyDict) ELSE Failed

-----------------------------------------------------------------------------
(* HybridLLM._fix_json, _extract_tool_call_components, _parse_tool_calls *)

Count(s, kind) == Cardinality({i \in 1..Len(s) : s[i].k = kind})

Repeat(t, n) == [i \in 1..n |-> t]

Min(S) == CHOOSE x \in S : \A y \in S : x <= y

\* re.search(r'"key":\s*"([^"]*)"', text): the value of the first item with
\* that key whose value has the form of the pattern; nonempty is the [^"]+
\* form, which skips an empty value
Search(s, key, nonempty) ==
    LET at == {i \in 1..Len(s) :
                  s[i].k = key /\ s[i].f = "plain" /\ (nonempty => s[i].v # "")}
    IN  IF at = {} THEN Absent ELSE s[Min(at)].v

\* the fields _fix_json rebuilds by hand
FixJsonFields ==
    {"action", "max_results", "message_id", "body", "query", "time", "message",
     "label", "repeat", "alarm_id"}

\* the fields _extract_tool_call_components extracts
ComponentFields == {"action", "max_results", "message_id", "body", "query"}

NotFixed == [fixed |-> FALSE, dict |-> EmptyDict]

\* the string _fix_json tests: closing braces appended when the last
\* character is not one
CompleteBraces(s) ==
    IF Len(s) > 0 /\ s[Len(s)].k = "}" THEN s
    ELSE LET missing == Count(s, "{") - Count(s, "}")
         IN  s \o Repeat(RB, IF missing > 0 THEN missing ELSE 0)

\* _fix_json, returning the dict its result string loads to
FixJson(json_str) ==
    LET test == JsonLoads(CompleteBraces(json_str))
    IN  IF test.ok /\ test.dict.hasName THEN [fixed |-> TRUE, dict |-> test.dict]
        ELSE IF Count(json_str, "name") > 0
             THEN LET name == Search(json_str, "name", TRUE)
                  IN  IF name = Absent THEN NotFixed
                      ELSE [fixed |-> TRUE,
                            dict |-> Dict(TRUE, name, TRUE,
                                [k \in ParamKeys |->
                                    IF k \in FixJsonFields
                                    THEN Search(json_str, k, FALSE) ELSE Absent],
                                EmptyParams)]
             ELSE NotFixed

ExtractToolCallComponents(text) ==
    LET name == Search(text, "name", TRUE)
    IN  IF name = Absent THEN NotFixed
        ELSE [fixed |-> TRUE,
              dict |-> Dict(TRUE, name, TRUE,
                  [k \in ParamKeys |->
                      IF k \in ComponentFields
                      THEN Search(text, k, k # "max_results") ELSE Absent],
                  EmptyParams)]

\* the body of the loop over the matches: the tool calls one match adds
ParseMatch(match) ==
    LET fixed == FixJson(match)
        orig == JsonLoads(match)
        extracted == ExtractToolCallComponents(match)
    IN  IF fixed.fixed THEN <<fixed.dict>>
        ELSE IF orig.ok
             THEN IF orig.dict.hasName THEN <<orig.dict>> ELSE << >>
             ELSE IF extracted.fixed THEN <<extracted.dict>> ELSE << >>

RECURSIVE Unique(_, _)
\* the first occurrence of every element, in order
Unique(calls, seen) ==
    IF calls = << >> THEN << >>
    ELSE IF Head(calls) \in seen THEN Unique(Tail(calls), seen)
         ELSE <<Head(calls)>> \o Unique(Tail(calls), seen \cup {Head(calls)})

RECURSIVE ParseAll(_)
ParseAll(matches) ==
    IF matches = << >> THEN << >>
    ELSE ParseMatch(Head(matches)) \o ParseAll(Tail(matches))

\* the orders in which list(set(...)) may enumerate a set
Orders(S) == {f \in [1..Cardinality(S) -> S] : \A x \in S : \E i \in DOMAIN f : f[i] = x}

\* _parse_tool_calls with the matches enumerated in the given order
ParseToolCalls(order) == Unique(ParseAll(order), {})

-----------------------------------------------------------------------------
(* Texts: utterances, replies and tool results, by what they are *)

Text(kind, tag, n, id) == [kind |-> kind, tag |-> tag, n |-> n, id |-> id]

\* what an utterance contains: the rule patterns and keywords found in it
UtteranceTokens(u) ==
    CASE u = "ohayo" -> {"ohayo"}
      [] u = "hello" -> {"hello"}
      [] u = "thank" -> {"thank"}
      [] u = "gmail" -> {"gmail"}
      [] u = "reply" -> {"reply"}
      [] u = "hello gmail" -> {"hello", "gmail"}
      [] u = "ohayo hello" -> {"ohayo", "hello"}
      [] u = "ima nanji" -> {"ima_nanji"}
      [] u = "gmail bye" -> {"gmail", "bye"}
      [] u = "weather" -> {"weather"}
      [] OTHER -> {}

Utterances ==
    {"ohayo", "hello", "thank", "gmail", "reply", "hello gmail", "gmail bye",
     "ohayo hello", "ima nanji", "weather"}

-----------------------------------------------------------------------------
(* RuleProcessor *)

Rule(name, patterns, priority, action, responses) ==
    [name |-> name, patterns |-> patterns, priority |-> priority,
     action |-> action, responses |-> responses]

\* _load_rules: the rules in list order; action is Absent for a rule with
\* canned responses, responses is the number of response variants
LoadRules ==
    << Rule("greeting_morning", {"ohayo", "morning"}, 10, Absent, 3),
       Rule("greeting_general", {"hello", "hi"}, 10, Absent, 3),
       Rule("current_time", {"ima_nanji"}, 15, "get_current_time", 0),
       Rule("current_date", {"kyou_nannichi"}, 15, "get_current_date", 0),
       Rule("simple_calculation", {"plus"}, 20, "calculate", 0),
       Rule("feeling_bad", {"tsukareta"}, 8, Absent, 3),
       Rule("feeling_good", {"ureshii"}, 8, Absent, 3),
       Rule("thanks", {"thank"}, 12, Absent, 1),
       Rule("sorry", {"sorry"}, 12, Absent, 3),
       Rule("help", {"help"}, 15, Absent, 3),
       Rule("gmail_trigger", {"gmail", "mail", "reply"}, 25, "use_gmail_tool", 0),
       Rule("goodbye", {"bye", "goodbye"}, 10, Absent, 3) >>

\* re.search(pattern, user_input_clean) for some pattern of the rule
Matches(rule, u) == rule.patterns \cap UtteranceTokens(u) # {}

NoRule == Rule(Absent, {}, -1, Absent, 0)

RECURSIVE MatchFirst(_, _, _)
\* a scan that keeps the first matching rule whatever its priority
MatchFirst(rs, u, held) ==
    IF rs = << >> THEN held
    ELSE MatchFirst(Tail(rs), u,
                    IF Matches(Head(rs), u) /\ held.name = Absent
                    THEN Head(rs) ELSE held)

RECURSIVE MatchRule(_, _, _)
\* the loop of process_input: a matching rule replaces the one held when its
\* priority is strictly higher
MatchRule(rs, u, held) ==
    IF rs = << >> THEN held
    ELSE MatchRule(Tail(rs), u,
                   IF Matches(Head(rs), u) /\ Head(rs).priority > held.priority
                   THEN Head(rs) ELSE held)

Placeholders == {"MeruID", "MessejiID", "email_id", "message_id_placeholder"}

\* _suggest_gmail_tool_calls
SuggestGmailToolCalls(u) ==
    IF "reply" \in UtteranceTokens(u)
    THEN << Request("gmail", {<<"action", "list">>, <<"max_results", "1">>}),
            Request("gmail", {<<"action", "reply">>, <<"message_id", "MeruID">>,
                              <<"body", "reply_content">>}) >>
    ELSE IF "kakunin" \in UtteranceTokens(u)
    THEN << Request("gmail", {<<"action", "list">>, <<"query", "is:unread">>,
                              <<"max_results", "5">>}) >>
    ELSE << Request("gmail", {<<"action", "list">>, <<"max_results", "5">>}) >>

\* response variants holding the greeting _personalize_response looks for
HasGreetingWord(rule_name, variant) ==
    \/ rule_name = "greeting_morning"
    \/ rule_name = "greeting_general" /\ variant \in {1, 2}

\* _personalize_response; info is the set of keys of the personal info
PersonalizeResponse(rule_name, variant, info) ==
    IF \/ rule_name \in {"greeting_morning", "greeting_general"} /\ "name" \in info
          /\ HasGreetingWord(rule_name, variant)
       \/ rule_name = "thanks" /\ "name" \in info
       \/ rule_name = "feeling_good" /\ "hobbies" \in info
    THEN Text("personal", rule_name, 0, None)
    ELSE Text("canned", rule_name, variant, None)

NoOutcome ==
    [matched |-> FALSE, rule_name |-> Absent, priority |-> -1, is_final |-> FALSE,
     response |-> Text("none", "", 0, None), tool_calls |-> << >>]

\* process_input(user_input, memory_tool); ready is self.initialized, pick is the variant random.choice
\* takes, memory is FALSE for no memory tool, info the personal info it holds
ProcessInput(rs, ready, u, pick, memory, info) ==
    LET rule == MatchRule(rs, u, NoRule)
    IN  IF ~ready \/ rule.name = Absent THEN NoOutcome
        ELSE IF rule.action = "use_gmail_tool"
        THEN [matched |-> TRUE, rule_name |-> rule.name, priority |-> rule.priority,
              is_final |-> FALSE, response |-> Text("empty", "", 0, None),
              tool_calls |-> SuggestGmailToolCalls(u)]
        ELSE IF rule.action # Absent
        THEN [matched |-> TRUE, rule_name |-> rule.name, priority |-> rule.priority,
              is_final |-> TRUE, response |-> Text("action", rule.action, 0, None),
              tool_calls |-> << >>]
        ELSE IF rule.responses = 0 THEN NoOutcome
        ELSE LET variant == IF pick <= rule.responses THEN pick ELSE 1
             IN  [matched |-> TRUE, rule_name |-> rule.name, priority |-> rule.priority,
                  is_final |-> TRUE,
                  response |-> IF memory
                               THEN PersonalizeResponse(rule.name, variant, info)
                               ELSE Text("canned", rule.name, variant, None),
                  tool_calls |-> << >>]

RECURSIVE InsertBeforeEqual(_, _)
\* the place an unstable sort may give an appended rule: before the rules of
\* its own priority
InsertBeforeEqual(rs, rule) ==
    IF rs = << >> THEN <<rule>>
    ELSE IF Head(rs).priority > rule.priority
         THEN <<Head(rs)>> \o InsertBeforeEqual(Tail(rs), rule)
         ELSE <<rule>> \o rs

RECURSIVE InsertByPriority(_, _)
\* the place sort(key=priority, reverse=True) gives an appended rule: after
\* the rules of priority at least its own
InsertByPriority(rs, rule) ==
    IF rs = << >> THEN <<rule>>
    ELSE IF Head(rs).priority >= rule.priority
         THEN <<Head(rs)>> \o InsertByPriority(Tail(rs), rule)
         ELSE <<rule>> \o rs

RECURSIVE SortByPriority(_)
\* list.sort(key=priority, reverse=True): stable, highest priority first
SortByPriority(rs) ==
    IF rs = << >> THEN << >>
    ELSE InsertByPriority(SortByPriority(SubSeq(rs, 1, Len(rs) - 1)), rs[Len(rs)])

\* add_rule
AddRuleTo(rs, rule) == SortByPriority(Append(rs, rule))

-----------------------------------------------------------------------------
(* ContextManager *)

MaxMessages == 50
ContextWindowHours == 2

Message(role, content, ts, turn) ==
    [role |-> role, content |-> content, ts |-> ts, turn |-> turn]

IsSystem(m) == m.role = "system"
NotSystem(m) == m.role # "system"
LastN(s, n) == SubSeq(s, Len(s) - n + 1, Len(s))

\* a clean-up by count alone, without the time window
CleanupByCount(msgs, t, limit) ==
    LET system_messages == SelectSeq(msgs, IsSystem)
        other_messages == SelectSeq(msgs, NotSystem)
        keep_count == limit - Len(system_messages)
    IN  IF Len(msgs) > limit
        THEN system_messages \o
             (IF keep_count > 0 /\ keep_count < Len(other_messages)
              THEN LastN(other_messages, keep_count) ELSE other_messages)
        ELSE msgs

\* a clean-up that keeps the most recent messages whatever their role
CleanupAnyRole(msgs, t, limit) ==
    LET counted == IF Len(msgs) > limit THEN LastN(msgs, limit) ELSE msgs
        Fresh(m) == m.ts > t - ContextWindowHours
    IN  SelectSeq(counted, Fresh)

\* _cleanup_old_messages at time t on a manager built with the given
\* max_messages: the count limit, then the time window
CleanupMessages(msgs, t, limit) ==
    LET system_messages == SelectSeq(msgs, IsSystem)
        other_messages == SelectSeq(msgs, NotSystem)
        keep_count == limit - Len(system_messages)
        counted == IF Len(msgs) > limit
                   THEN system_messages \o
                        (IF keep_count > 0 /\ keep_count < Len(other_messages)
                         THEN LastN(other_messages, keep_count) ELSE other_messages)
                   ELSE msgs
        Fresh(m) == m.role = "system" \/ m.ts > t - ContextWindowHours
    IN  SelectSeq(counted, Fresh)

\* _cleanup_old_messages of a manager built with the default max_messages
CleanupOldMessages(msgs, t) == CleanupMessages(msgs, t, MaxMessages)

\* add_user_message, add_assistant_message
AddMessage(msgs, role, content, t, turn) ==
    CleanupOldMessages(Append(msgs, Message(role, content, t, turn)), t)

\* ContextManager() followed by initialize()
NewContext(t) == << Message("system", Text("system", "", 0, None), t, 0) >>

\* ContextManager.email_state as __init__ and reset_email_state leave it
NewEmailState ==
    [last_action |-> None, shown_email_ids |-> << >>, last_shown_count |-> 0,
     total_available |-> None, current_offset |-> 0]

\* an update that keeps only the last page: the ids and the offset of the
\* listing just shown
UpdateEmailStateLastPage(state, action, shown_ids, shown_count) ==
    [state EXCEPT !.last_action = action,
                  !.shown_email_ids = shown_ids,
                  !.last_shown_count = shown_count,
                  !.current_offset = shown_count]

\* update_email_state
UpdateEmailState(state, action, shown_ids, shown_count) ==
    [state EXCEPT !.last_action = action,
                  !.shown_email_ids = @ \o shown_ids,
                  !.last_shown_count = shown_count,
                  !.current_offset = @ + shown_count]

\* the client connections of the server, and the calls none of them has made
Connections == {"c1", "c2"}
NoConnections == [t \in 1..MaxTurns |-> None]

\* a voice connection's handler: no connection, waiting in receive_bytes,
\* or inside process_audio waiting for stt.transcribe or for process_text
NoHandlers == [c \in Connections |-> "closed"]

\* the state tokens flow.authorization_url issues, and one it never issued
MaxStates == 3
UnknownState == 0
AuthStateTokens == {UnknownState} \cup (1..MaxStates)
Sessions == {"s1", "s2"}
NoAuthStates == [s \in AuthStateTokens |-> Absent]

-----------------------------------------------------------------------------
(* HybridLLM *)

Registration == <<"claude", "ollama", "openai">>
ProviderNames == {"claude", "ollama", "openai"}

\* HybridLLM.__init__
DefaultConfig ==
    [primary_provider |-> "claude", fallback_provider |-> "ollama",
     privacy_mode |-> FALSE, auto_fallback |-> TRUE]
\* the model a provider object is constructed with
DefaultModel == "default"
NoProviders ==
    [n \in ProviderNames |->
        [registered |-> FALSE, is_available |-> FALSE, model |-> DefaultModel]]

Getenv(env, key, default) == IF env[key] = Absent THEN default ELSE env[key]

\* initialize: avail[n] tells whether provider n comes up available
LLMInitialize(llm, env, avail) ==
    LET read == [llm.config EXCEPT
                    !.primary_provider = Getenv(env, "PRIMARY_LLM", @),
                    !.fallback_provider = Getenv(env, "FALLBACK_LLM", @),
                    !.privacy_mode = (Getenv(env, "PRIVACY_MODE", "false") = "true")]
        created == [n \in ProviderNames |->
                       [registered |-> TRUE, is_available |-> avail[n],
                        model |-> DefaultModel]]
    IN  IF \A n \in ProviderNames : ~avail[n]
        THEN [config |-> read, providers |-> created,
              is_initialized |-> llm.is_initialized, raised |-> TRUE]
        ELSE [config |-> IF read.privacy_mode /\ avail["ollama"]
                         THEN [read EXCEPT !.primary_provider = "ollama",
                                           !.fallback_provider = None]
                         ELSE read,
              providers |-> created, is_initialized |-> TRUE, raised |-> FALSE]

HasKey(upd, key) == \E p \in upd : p[1] = key

\* dict.update with an update given as its set of <<key, value>> items
Updated(cfg, upd) ==
    [k \in DOMAIN cfg |-> IF HasKey(upd, k) THEN (CHOOSE p \in upd : p[1] = k)[2] ELSE cfg[k]]

\* update_config: up tells whether the provider whose model is changed comes
\* up available, avail the same for every provider on a re-initialisation
UpdateConfig(llm, env, upd, up, avail) ==
    LET cfg == Updated(llm.config, upd)
        name == cfg.primary_provider
        remodel == HasKey(upd, "model") /\ name \in {"claude", "openai"}
                   /\ llm.providers[name].registered
        ps == IF remodel
              THEN [llm.providers EXCEPT
                       ![name].is_available = up,
                       ![name].model = (CHOOSE p \in upd : p[1] = "model")[2]]
              ELSE llm.providers
        set == [config |-> cfg, providers |-> ps,
                is_initialized |-> llm.is_initialized, raised |-> FALSE]
    IN  IF cfg.primary_provider # llm.config.primary_provider
           \/ cfg.privacy_mode # llm.config.privacy_mode
        THEN LLMInitialize(set, env, avail)
        ELSE set

Available(llm, n) ==
    n \in ProviderNames /\ llm.providers[n].registered /\ llm.providers[n].is_available

\* a fallback chain that walks every available provider after the primary,
\* the configured secondary included, whatever auto_fallback says
AttemptsWalkingAll(llm) ==
    LET primary == llm.config.primary_provider
        Other(n) == Available(llm, n) /\ n # primary
    IN  (IF Available(llm, primary) THEN <<primary>> ELSE << >>)
        \o SelectSeq(Registration, Other)

\* the providers _generate_with_fallback would call, in the order of its calls
Attempts(llm) ==
    LET primary == llm.config.primary_provider
        fallback == llm.config.fallback_provider
        Other(n) == Available(llm, n) /\ n \notin {primary, fallback}
    IN  (IF Available(llm, primary) THEN <<primary>> ELSE << >>)
        \o (IF llm.config.auto_fallback /\ fallback # None /\ Available(llm, fallback)
            THEN <<fallback>> ELSE << >>)
        \o SelectSeq(Registration, Other)

\* _generate_with_fallback: first_ok is the first call that succeeds
GenerateWithFallback(llm, first_ok) ==
    LET attempts == Attempts(llm)
        ok == first_ok <= Len(attempts)
    IN  [invoked |-> IF ok THEN SubSeq(attempts, 1, first_ok) ELSE attempts,
         raised |-> ~ok,
         provider |-> IF ok THEN attempts[first_ok] ELSE None]


\* what a provider may answer: prose with TOOL_CALL markers in it
BackendText(text) ==
    CASE text = "plain" -> <<PROSE>>
      [] text = "list" ->
            <<PROSE, MARK, LB, KV("name", "gmail"), PARAMETERS, LB,
              KV("action", "list"), RB, RB>>
      [] text = "list twice" ->
            <<MARK, LB, KV("name", "gmail"), PARAMETERS, LB, KV("action", "list"), RB, RB,
              PROSE,
              MARK, LB, KV("name", "gmail"), PARAMETERS, LB, KV("action", "list"), RB, RB>>
      [] text = "reply placeholder" ->
            <<MARK, LB, KV("name", "gmail"), PARAMETERS, LB, KV("action", "reply"),
              KV("message_id", "email_id"), RB, RB>>
      [] text = "read real" ->
            <<MARK, LB, KV("name", "gmail"), PARAMETERS, LB, KV("action", "read"),
              KV("message_id", "id1"), RB, RB>>
      [] text = "send" ->
            <<MARK, LB, KV("name", "gmail"), PARAMETERS, LB, KV("action", "send"),
              KV("to", "bob"), RB, RB, PROSE>>
      [] text = "unknown tool" ->
            <<MARK, LB, KV("name", "nosuch"), PARAMETERS, LB, RB, RB>>
      [] text = "open" ->
            <<MARK, LB, KV("name", "gmail"), PARAMETERS, LB, KV("action", "list")>>
      [] OTHER -> << >>

BackendTexts ==
    {"plain", "list", "list twice", "reply placeholder", "read real", "send",
     "unknown tool", "open"}

\* the answers given to process_with_tools called on its own
LLMTexts == {"plain", "list", "list twice", "reply placeholder", "read real"}

\* the structured call lists a provider may return next to its text
NativeCalls ==
    << << >>,
       << Request("gmail", {<<"action", "list">>}) >>,
       << Request("gmail", {<<"action", "reply">>, <<"message_id", "MeruID">>}),
          Request("gmail", {<<"action", "reply">>, <<"message_id", "id1">>}) >> >>

\* _replace_placeholder_email_ids, for one call
ReplacePlaceholderIn(call, actual_email_id) ==
    IF call.hasName /\ call.name = "gmail" /\ call.hasParameters
    THEN LET params == call.parameters
             first == IF params["message_id"] \in Placeholders
                      THEN [params EXCEPT !["message_id"] = actual_email_id]
                      ELSE params
             second == IF first["action"] = "reply"
                          /\ first["message_id"] \in {Absent, ""} \cup Placeholders
                       THEN [first EXCEPT !["message_id"] = actual_email_id]
                       ELSE first
         IN  [call EXCEPT !.parameters = second]
    ELSE call

\* _replace_placeholder_email_ids
ReplacePlaceholderEmailIds(tool_calls, actual_email_id) ==
    [i \in DOMAIN tool_calls |-> ReplacePlaceholderIn(tool_calls[i], actual_email_id)]

\* the id of the latest message whose content holds "ID: <id>"
HistoryId(context) ==
    LET with == {i \in DOMAIN context : context[i].content.id # None}
    IN  IF with = {} THEN None
        ELSE context[CHOOSE i \in with : \A j \in with : j <= i].content.id

GenericResponse == Text("llm_error", "", 0, None)

\* process_with_tools: fails is the number of provider calls that fail before
\* one succeeds, text and native what the answering provider returns, order
\* the order in which the set of candidates is walked, manager_id the
\* latest_email_id of the context manager (None without a context manager)
ProcessWithTools(llm, context, manager_id, fails, text, native, order) ==
    LET gen == GenerateWithFallback(llm, fails + 1)
        provider_tool_calls == IF gen.provider = "openai" THEN native ELSE << >>
        parsed_tool_calls == ParseToolCalls(order)
        tool_calls == provider_tool_calls \o parsed_tool_calls
        latest_email_id_ == IF manager_id # None THEN manager_id ELSE HistoryId(context)
    IN  IF ~llm.is_initialized
        THEN [raised |-> TRUE, gen |-> [invoked |-> << >>, raised |-> FALSE, provider |-> None],
              response |-> Text("none", "", 0, None), tool_calls |-> << >>,
              provider_tool_calls |-> << >>, parsed_tool_calls |-> << >>]
        ELSE IF gen.raised
        THEN [raised |-> FALSE, gen |-> gen, response |-> GenericResponse,
              tool_calls |-> << >>, provider_tool_calls |-> << >>,
              parsed_tool_calls |-> << >>]
        ELSE [raised |-> FALSE, gen |-> gen, response |-> Text("llm", text, 0, None),
              tool_calls |-> IF latest_email_id_ # None
                             THEN ReplacePlaceholderEmailIds(tool_calls, latest_email_id_)
                             ELSE tool_calls,
              provider_tool_calls |-> provider_tool_calls,
              parsed_tool_calls |-> parsed_tool_calls]

\* generate_final_response
GenerateFinalResponse(llm, fails) ==
    LET gen == GenerateWithFallback(llm, fails + 1)
    IN  [gen |-> gen,
         response |-> IF gen.raised THEN Text("synth_error", "", 0, None)
                      ELSE Text("synth", gen.provider, 0, None)]

-----------------------------------------------------------------------------
(* HybridLLM on its own: initialize, update_config, process_with_tools,
   generate_final_response, with the context manager they read *)

MaxFails == 4
MaxHistory == 2

Ids == {"id1", "id2"}

NoEnvironment == [PRIMARY_LLM |-> Absent, FALLBACK_LLM |-> Absent, PRIVACY_MODE |-> Absent]

\* os.environ as the process may be started
Environments ==
    { NoEnvironment,
      [PRIMARY_LLM |-> "openai", FALLBACK_LLM |-> "claude", PRIVACY_MODE |-> Absent],
      [PRIMARY_LLM |-> Absent, FALLBACK_LLM |-> Absent, PRIVACY_MODE |-> "true"] }

\* which providers come up available when they are initialised
Availabilities ==
    { [n \in ProviderNames |-> TRUE],
      [n \in ProviderNames |-> FALSE],
      [n \in ProviderNames |-> n = "ollama"],
      [n \in ProviderNames |-> n # "claude"] }

\* the updates update_config is given
ConfigUpdates ==
    << {<<"auto_fallback", FALSE>>},
       {<<"primary_provider", "openai">>, <<"model", "m">>},
       {<<"primary_provider", "claude">>, <<"model", "m">>},
       {<<"fallback_provider", "claude">>},
       {<<"privacy_mode", TRUE>>},
       {<<"model", "m">>} >>

LLM == [config |-> config, providers |-> providers, is_initialized |-> llm_initialized]

NoObs == [op |-> "none"]

Init_LLM ==
    /\ is_initialized = FALSE
    /\ messages = NewContext(0)
    /\ latest_email_id = None
    /\ now = 0
    /\ llm_initialized = FALSE
    /\ providers = NoProviders
    /\ config = DefaultConfig
    /\ environ \in Environments
    /\ rules = LoadRules
    /\ initialized = FALSE
    /\ tools_initialized = FALSE
    /\ turns = 0
    /\ obs = NoObs
    /\ max_messages = MaxMessages
    /\ email_state = NewEmailState
    /\ connection_of = NoConnections
    /\ status_callback = None
    /\ active_connections = {}
    /\ pc = NoHandlers
    /\ auth_states = NoAuthStates

\* HybridLLM.initialize
DoInitialize ==
    /\ turns < MaxTurns
    /\ \E avail \in Availabilities :
          LET r == LLMInitialize(LLM, environ, avail)
          IN  /\ config' = r.config
              /\ providers' = r.providers
              /\ llm_initialized' = r.is_initialized
              /\ obs' = [op |-> "initialize", raised |-> r.raised]
    /\ turns' = turns + 1
    /\ UNCHANGED <<max_messages, email_state, connection_of, EndpointVars, is_initialized, messages, latest_email_id, now, environ, rules, initialized, tools_initialized>>

\* HybridLLM.update_config
DoUpdateConfig ==
    /\ turns < MaxTurns
    /\ \E i \in DOMAIN ConfigUpdates, up \in BOOLEAN, avail \in Availabilities :
          LET r == UpdateConfig(LLM, environ, ConfigUpdates[i], up, avail)
          IN  /\ config' = r.config
              /\ providers' = r.providers
              /\ llm_initialized' = r.is_initialized
              /\ obs' = [op |-> "update_config", raised |-> r.raised,
                         update |-> ConfigUpdates[i]]
    /\ turns' = turns + 1
    /\ UNCHANGED <<max_messages, email_state, connection_of, EndpointVars, is_initialized, messages, latest_email_id, now, environ, rules, initialized, tools_initialized>>

\* ContextManager.set_latest_email_id, clear_latest_email_id
DoSetLatestEmailId ==
    /\ turns < MaxTurns
    /\ \E id \in Ids \cup {None} :
          /\ latest_email_id' = id
          /\ obs' = [op |-> "set_latest_email_id", id |-> id]
    /\ turns' = turns + 1
    /\ UNCHANGED <<max_messages, email_state, connection_of, EndpointVars, is_initialized, messages, now, llm_initialized, providers, config,
                   environ, rules, initialized, tools_initialized>>

\* ContextManager.add_assistant_message with a reply that quotes an id
DoAddAssistantMessage ==
    /\ turns < MaxTurns
    /\ Len(messages) < MaxHistory
    /\ messages' = AddMessage(messages, "assistant", Text("synth", "", 0, "id1"), now, 0)
    /\ obs' = [op |-> "add_assistant_message"]
    /\ turns' = turns + 1
    /\ UNCHANGED <<max_messages, email_state, connection_of, EndpointVars, is_initialized, latest_email_id, now, llm_initialized, providers,
                   config, environ, rules, initialized, tools_initialized>>

\* HybridLLM.process_with_tools, given the context manager as the agent gives it
DoProcessWithTools ==
    /\ turns < MaxTurns
    /\ \E fails \in 0..MaxFails, text \in LLMTexts, n \in DOMAIN NativeCalls :
          \E order \in Orders(AllMatches(BackendText(text))) :
             obs' = [op |-> "process_with_tools", fails |-> fails,
                     out |-> ProcessWithTools(LLM, messages, latest_email_id, fails, text,
                                              NativeCalls[n], order)]
    /\ turns' = turns + 1
    /\ UNCHANGED <<max_messages, email_state, connection_of, EndpointVars, is_initialized, messages, latest_email_id, now, llm_initialized,
                   providers, config, environ, rules, initialized, tools_initialized>>

\* HybridLLM.generate_final_response
DoGenerateFinalResponse ==
    /\ turns < MaxTurns
    /\ \E fails \in 0..MaxFails :
          obs' = [op |-> "generate_final_response", fails |-> fails,
                  out |-> GenerateFinalResponse(LLM, fails)]
    /\ turns' = turns + 1
    /\ UNCHANGED <<max_messages, email_state, connection_of, EndpointVars, is_initialized, messages, latest_email_id, now, llm_initialized,
                   providers, config, environ, rules, initialized, tools_initialized>>

Next_LLM ==
    \/ DoInitialize
    \/ DoUpdateConfig
    \/ DoSetLatestEmailId
    \/ DoAddAssistantMessage
    \/ DoProcessWithTools
    \/ DoGenerateFinalResponse

SpecLLM == Init_LLM /\ [][Next_LLM]_vars

-----------------------------------------------------------------------------
(* Claims about HybridLLM *)

Generated == obs.op \in {"process_with_tools", "generate_final_response"}
Invoked == obs.out.gen.invoked

\* C1: within one Turn no two Action Requests handed to dispatch are
\* structurally identical, whichever source produced them: a request found
\* both in the provider's structured list and in the reply text is returned
\* by process_with_tools once.
C1_NoIdenticalRequests ==
    obs.op = "process_with_tools" =>
        \A i, j \in DOMAIN obs.out.tool_calls :
            i # j => obs.out.tool_calls[i] # obs.out.tool_calls[j]

Healthy(n) == n \in ProviderNames /\ providers[n].registered /\ providers[n].is_available
Remaining(n) ==
    Healthy(n) /\ n \notin {config.primary_provider, config.fallback_provider}
IsPrefix(s, t) == Len(s) <= Len(t) /\ s = SubSeq(t, 1, Len(s))

\* the order as stated: primary, secondary, the remaining healthy providers
OrderAsStated ==
    (IF Healthy(config.primary_provider) THEN <<config.primary_provider>> ELSE << >>)
    \o (IF Healthy(config.fallback_provider) THEN <<config.fallback_provider>> ELSE << >>)
    \o SelectSeq(Registration, Remaining)

\* the order with the secondary tried only under auto_fallback
OrderWithAutoFallback ==
    (IF Healthy(config.primary_provider) THEN <<config.primary_provider>> ELSE << >>)
    \o (IF config.auto_fallback /\ Healthy(config.fallback_provider)
        THEN <<config.fallback_provider>> ELSE << >>)
    \o SelectSeq(Registration, Remaining)

\* the calls made follow the order: as many as fail and then the first that
\* succeeds, and the terminal condition exactly when all of them failed
Follows(order) ==
    /\ IsPrefix(Invoked, order)
    /\ Len(Invoked) = (IF obs.fails + 1 <= Len(order) THEN obs.fails + 1 ELSE Len(order))
    /\ obs.out.gen.raised = (obs.fails >= Len(order))
    /\ \A i \in DOMAIN Invoked : Healthy(Invoked[i])

-----------------------------------------------------------------------------
(* RuleProcessor on its own: initialize, add_rule, process_input *)

MaxAdded == 2

\* rules given to add_rule
ExtraRules ==
    { Rule("hello_first", {"hello"}, 30, Absent, 1),
      Rule("weather_zero", {"weather"}, 0, Absent, 1),
      Rule("weather_low", {"weather"}, -1, Absent, 1),
      Rule("weather_low_too", {"weather"}, -1, Absent, 1),
      Rule("weather_lower", {"weather"}, -2, Absent, 1) }

\* what the memory tool's get_personal_info may hold
PersonalInfos == {{}, {"name"}, {"name", "hobbies"}}
MaxVariants == 3

Init_Rule ==
    /\ is_initialized = FALSE
    /\ messages = << >>
    /\ latest_email_id = None
    /\ now = 0
    /\ llm_initialized = FALSE
    /\ providers = NoProviders
    /\ config = DefaultConfig
    /\ environ = NoEnvironment
    /\ rules = LoadRules
    /\ initialized = FALSE
    /\ tools_initialized = FALSE
    /\ turns = 0
    /\ obs = NoObs
    /\ max_messages = MaxMessages
    /\ email_state = NewEmailState
    /\ connection_of = NoConnections
    /\ status_callback = None
    /\ active_connections = {}
    /\ pc = NoHandlers
    /\ auth_states = NoAuthStates

RuleUnchanged ==
    UNCHANGED <<max_messages, email_state, connection_of, EndpointVars, is_initialized, messages, latest_email_id, now, llm_initialized,
                providers, config, environ, tools_initialized, turns>>

\* RuleProcessor.initialize
DoRuleInitialize ==
    /\ ~initialized
    /\ initialized' = TRUE
    /\ obs' = [op |-> "initialize"]
    /\ UNCHANGED rules
    /\ RuleUnchanged

\* RuleProcessor.add_rule
DoAddRule ==
    /\ Len(rules) < Len(LoadRules) + MaxAdded
    /\ \E rule \in ExtraRules :
          /\ rules' = AddRuleTo(rules, rule)
          /\ obs' = [op |-> "add_rule", rule |-> rule.name, added |-> rule,
                     before |-> rules]
    /\ UNCHANGED initialized
    /\ RuleUnchanged

\* RuleProcessor.process_input
DoProcessInput ==
    /\ \E u \in Utterances, pick \in 1..MaxVariants, memory \in BOOLEAN,
          info \in PersonalInfos :
          obs' = [op |-> "process_input", u |-> u, pick |-> pick,
                  out |-> ProcessInput(rules, initialized, u, pick, memory, info)]
    /\ UNCHANGED <<rules, initialized, tools_initialized>>
    /\ RuleUnchanged

Next_Rule ==
    \/ DoRuleInitialize
    \/ DoAddRule
    \/ DoProcessInput

SpecRule == Init_Rule /\ [][Next_Rule]_vars

Matching(u) == {i \in DOMAIN rules : Matches(rules[i], u)}
TopPriority(u) ==
    CHOOSE p \in {rules[i].priority : i \in Matching(u)} :
        \A i \in Matching(u) : rules[i].priority <= p
Differ(u) == \E i, j \in Matching(u) : rules[i].priority # rules[j].priority

\* the outcome returned is that of a matching rule of the highest priority
TopOutcome(u, out) ==
    /\ out.matched
    /\ out.priority = TopPriority(u)
    /\ \E i \in Matching(u) :
          rules[i].name = out.rule_name /\ rules[i].priority = TopPriority(u)

-----------------------------------------------------------------------------
(* ToolRegistry.execute_tool and VoiceAgent._execute_tools *)

\* the names of ToolRegistry._builtin_map that the calls of the model use
BuiltinTools == {"gmail", "time"}

\* the required parameters of a tool's schema
RequiredParameters(tool_name) == IF tool_name = "gmail" THEN {"action"} ELSE {}

\* Tool.validate_parameters
ValidateParameters(tool_name, parameters) ==
    \A k \in RequiredParameters(tool_name) : parameters[k] # Absent

\* what a tool's execute may do: return a ToolResult with success, whose
\* metadata holds latest_email_id (meta, Absent for no metadata) and whose
\* text quotes "ID: <in_text>"; return a ToolResult without success; raise
Outcome(kind, meta, in_text) == [kind |-> kind, meta |-> meta, in_text |-> in_text]
ToolOutcomes ==
    { Outcome("success", "id2", None), Outcome("success", Absent, "id2"),
      Outcome("success", None, None), Outcome("failure", Absent, None),
      Outcome("raise", Absent, None) }

\* execute_tool: the value returned, is_result telling a ToolResult from a
\* string, or raised for the exception that leaves it
ExecuteTool(ready, tool_name, parameters, outcome) ==
    IF ~ready \/ tool_name \notin BuiltinTools
    THEN [raised |-> TRUE, executed |-> FALSE, is_result |-> FALSE,
          result |-> Text("none", "", 0, None), metadata |-> Absent]
    ELSE IF ~ValidateParameters(tool_name, parameters)
    THEN [raised |-> FALSE, executed |-> FALSE, is_result |-> FALSE,
          result |-> Text("tool_error", "invalid parameters", 0, None), metadata |-> Absent]
    ELSE IF outcome.kind = "success"
    THEN [raised |-> FALSE, executed |-> TRUE, is_result |-> TRUE,
          result |-> Text("tool_result", tool_name, 0, outcome.in_text),
          metadata |-> outcome.meta]
    ELSE [raised |-> FALSE, executed |-> TRUE, is_result |-> FALSE,
          result |-> Text("tool_error", outcome.kind, 0, None), metadata |-> Absent]

\* a resolver that writes the latest email id over whatever message_id holds
ReplaceMessageId(tool_params, latest) ==
    IF latest # None THEN [tool_params EXCEPT !["message_id"] = latest] ELSE tool_params

\* _replace_placeholder_email_id
ReplacePlaceholderEmailId(tool_params, latest) ==
    IF tool_params["message_id"] \in Placeholders /\ latest # None
    THEN [tool_params EXCEPT !["message_id"] = latest]
    ELSE tool_params

\* results[key] = value on a dict kept as its items in insertion order
Put(results, key, value) ==
    IF \E i \in DOMAIN results : results[i].key = key
    THEN [i \in DOMAIN results |->
             IF results[i].key = key THEN [key |-> key, value |-> value] ELSE results[i]]
    ELSE Append(results, [key |-> key, value |-> value])

HasItem(results, key) == \E i \in DOMAIN results : results[i].key = key
Get(results, key) == results[CHOOSE i \in DOMAIN results : results[i].key = key].value

\* the body of the loop of _execute_tools for one call: the parameters the
\* registry is given, what it answered and the results after it
Dispatch(results, tool_call, latest, ready, outcome) ==
    LET tool_name == NameOf(tool_call)
        given == ParametersOf(tool_call)
        tool_params == IF tool_name = "gmail" /\ given["message_id"] \notin {Absent, ""}
                       THEN ReplacePlaceholderEmailId(given, latest) ELSE given
        r == ExecuteTool(ready, tool_name, tool_params, outcome)
        stored == IF r.raised
                  THEN Put(results, tool_name, Text("dispatch_error", tool_name, 0, None))
                  ELSE Put(results, tool_name, r.result)
    IN  [entry |-> [name |-> tool_name, parameters |-> tool_params,
                    executed |-> r.executed, raised |-> r.raised,
                    result |-> Get(stored, tool_name), metadata |-> r.metadata],
         results |-> IF r.is_result /\ r.metadata # Absent
                     THEN Put(stored, tool_name \o "_metadata",
                              Text("metadata", tool_name, 0, r.metadata))
                     ELSE stored]

RECURSIVE ExecuteUntilFailure(_, _, _, _, _)
\* a dispatch loop that gives up at the first action that fails
ExecuteUntilFailure(tool_calls, latest, ready, outcomes, acc) ==
    IF tool_calls = << >> THEN acc
    ELSE LET d == Dispatch(acc.results, Head(tool_calls), latest, ready, Head(outcomes))
             next == [results |-> d.results, log |-> Append(acc.log, d.entry)]
         IN  IF d.entry.result.kind # "tool_result" THEN next
             ELSE ExecuteUntilFailure(Tail(tool_calls), latest, ready, Tail(outcomes), next)

RECURSIVE ExecuteTools(_, _, _, _, _)
\* _execute_tools: outcomes[i] is what the tool of the i-th call does when it
\* is executed; log lists the calls made to the registry
ExecuteTools(tool_calls, latest, ready, outcomes, acc) ==
    IF tool_calls = << >> THEN acc
    ELSE LET d == Dispatch(acc.results, Head(tool_calls), latest, ready, Head(outcomes))
         IN  ExecuteTools(Tail(tool_calls), latest, ready, Tail(outcomes),
                          [results |-> d.results, log |-> Append(acc.log, d.entry)])

NoResults == [results |-> << >>, log |-> << >>]

\* _extract_and_store_email_ids: the latest_email_id it leaves
ExtractAndStoreEmailIds(tool_results, latest) ==
    LET from_metadata == IF HasItem(tool_results, "gmail_metadata")
                         THEN Get(tool_results, "gmail_metadata").id ELSE None
        from_text == IF HasItem(tool_results, "gmail")
                     THEN Get(tool_results, "gmail").id ELSE None
    IN  IF from_metadata # None THEN from_metadata
        ELSE IF from_text # None THEN from_text
        ELSE latest

-----------------------------------------------------------------------------
(* The dispatch stage on its own: the resolver of HybridLLM inside
   process_with_tools, then _execute_tools and _extract_and_store_email_ids *)

\* the call lists given to _execute_tools
ToolCallLists ==
    << << Request("gmail", {<<"action", "list">>, <<"max_results", "5">>}) >>,
       << Request("gmail", {<<"action", "list">>, <<"max_results", "1">>}),
          Request("gmail", {<<"action", "reply">>, <<"message_id", "MeruID">>,
                            <<"body", "reply_content">>}) >>,
       << Request("gmail", {<<"action", "read">>, <<"message_id", "id1">>}),
          Request("time", {}) >>,
       << Request("nosuch", {}),
          Request("gmail", {<<"action", "list">>}) >>,
       << Request("gmail", {<<"message_id", "email_id">>}),
          Request("time", {}) >> >>

Init_Tools ==
    /\ is_initialized = FALSE
    /\ messages = NewContext(0)
    /\ latest_email_id = None
    /\ now = 0
    /\ llm_initialized = FALSE
    /\ providers = NoProviders
    /\ config = DefaultConfig
    /\ environ = NoEnvironment
    /\ rules = LoadRules
    /\ initialized = FALSE
    /\ tools_initialized = FALSE
    /\ turns = 0
    /\ obs = NoObs
    /\ max_messages = MaxMessages
    /\ email_state = NewEmailState
    /\ connection_of = NoConnections
    /\ status_callback = None
    /\ active_connections = {}
    /\ pc = NoHandlers
    /\ auth_states = NoAuthStates

\* ToolRegistry.initialize
DoToolsInitialize ==
    /\ ~tools_initialized
    /\ tools_initialized' = TRUE
    /\ obs' = [op |-> "initialize"]
    /\ UNCHANGED <<max_messages, email_state, connection_of, EndpointVars, is_initialized, messages, latest_email_id, now, llm_initialized,
                   providers, config, environ, rules, initialized, turns>>

\* VoiceAgent._execute_tools
DoExecuteTools ==
    /\ turns < MaxTurns
    /\ \E c \in DOMAIN ToolCallLists :
       \E outcomes \in [DOMAIN ToolCallLists[c] -> ToolOutcomes] :
          obs' = [op |-> "execute_tools", calls |-> ToolCallLists[c],
                  outcomes |-> outcomes,
                  out |-> ExecuteTools(ToolCallLists[c], latest_email_id,
                                       tools_initialized, outcomes, NoResults)]
    /\ turns' = turns + 1
    /\ UNCHANGED <<max_messages, email_state, connection_of, EndpointVars, is_initialized, messages, latest_email_id, now, llm_initialized,
                   providers, config, environ, rules, initialized, tools_initialized>>

\* VoiceAgent._extract_and_store_email_ids on the results of _execute_tools
DoExtractAndStoreEmailIds ==
    /\ turns < MaxTurns
    /\ obs.op = "execute_tools"
    /\ latest_email_id' = ExtractAndStoreEmailIds(obs.out.results, latest_email_id)
    /\ obs' = [op |-> "extract_and_store_email_ids", results |-> obs.out.results,
               log |-> obs.out.log, before |-> latest_email_id]
    /\ turns' = turns + 1
    /\ UNCHANGED <<max_messages, email_state, connection_of, EndpointVars, is_initialized, messages, now, llm_initialized, providers, config,
                   environ, rules, initialized, tools_initialized>>

Next_Tools ==
    \/ DoToolsInitialize
    \/ DoInitialize
    \/ DoSetLatestEmailId
    \/ DoAddAssistantMessage
    \/ DoProcessWithTools
    \/ DoExecuteTools
    \/ DoExtractAndStoreEmailIds

SpecTools == Init_Tools /\ [][Next_Tools]_vars

-----------------------------------------------------------------------------
(* Claims about the dispatch stage *)

Executed == obs.op = "execute_tools"
Log == obs.out.log

\* the dispatch of the i-th call fails: the registry is not ready, the tool
\* is unknown, the parameters are rejected, or the tool raises or reports
\* failure
DispatchFails(i) ==
    \/ ~tools_initialized
    \/ NameOf(obs.calls[i]) \notin BuiltinTools
    \/ ~ValidateParameters(NameOf(obs.calls[i]), ParametersOf(obs.calls[i]))
    \/ obs.outcomes[i].kind \in {"raise", "failure"}

ErrorShaped(result) == result.kind \in {"dispatch_error", "tool_error"}

\* C5: when the dispatch of one action fails (the tool raises, is unknown or
\* rejects its parameters) the failure becomes an error-shaped result for
\* that action only, every other action is still handed to the registry in
\* the order of the list, and _execute_tools returns.
C5_FailureContained ==
    Executed =>
        /\ Len(Log) = Len(obs.calls)
        /\ \A i \in DOMAIN obs.calls :
              /\ Log[i].name = NameOf(obs.calls[i])
              /\ DispatchFails(i) => ErrorShaped(Log[i].result)
              /\ ~DispatchFails(i) => (Log[i].executed /\ Log[i].result.kind = "tool_result")

\* an unknown tool was refused and the action after it was executed
C5_Witness ==
    /\ Executed /\ Len(Log) = 2
    /\ Log[1].raised /\ ErrorShaped(Log[1].result)
    /\ Log[2].executed /\ Log[2].result.kind = "tool_result"

IsGmail(call) == call.hasName /\ call.name = "gmail" /\ call.hasParameters
RealId(id) == id \notin Placeholders \cup {Absent, ""}

\* a resolution of the message_id of gmail requests: a placeholder becomes
\* the latest email id when it is set, nothing changes when no id is known,
\* and a real id stays what it was
Resolved(before, after, known) ==
    /\ Len(after) = Len(before)
    /\ \A i \in DOMAIN before :
          LET b == ParametersOf(before[i])["message_id"]
              a == after[i]["message_id"]
          IN  /\ (IsGmail(before[i]) /\ b \in Placeholders /\ latest_email_id # None)
                    => a = latest_email_id
              /\ ~known => after[i] = ParametersOf(before[i])
              /\ RealId(b) => a = b

\* C10: before dispatch a message_id holding a known placeholder phrase is
\* replaced by latest_email_id when it is set and left unchanged when no id
\* is known, and a message_id holding a real id is never altered, in the
\* resolver of process_with_tools and in the resolver of _execute_tools.
C10_PlaceholderResolution ==
    /\ (obs.op = "process_with_tools" /\ ~obs.out.raised /\ ~obs.out.gen.raised) =>
          Resolved(obs.out.provider_tool_calls \o obs.out.parsed_tool_calls,
                   [i \in DOMAIN obs.out.tool_calls |-> ParametersOf(obs.out.tool_calls[i])],
                   latest_email_id # None \/ HistoryId(messages) # None)
    /\ Executed =>
          Resolved(obs.calls, [i \in DOMAIN Log |-> Log[i].parameters],
                   latest_email_id # None)

\* the reply built by the gmail rule was dispatched with the latest email id
\* in place of its placeholder
C10_Witness ==
    /\ Executed /\ latest_email_id # None /\ Len(Log) = 2
    /\ ParametersOf(obs.calls[2])["message_id"] \in Placeholders
    /\ Log[2].parameters["message_id"] = latest_email_id

\* process_with_tools left a placeholder as it was, no id being known
C10_WitnessUnknown ==
    /\ obs.op = "process_with_tools" /\ latest_email_id = None
    /\ HistoryId(messages) = None
    /\ \E i \in DOMAIN obs.out.tool_calls :
          ParametersOf(obs.out.tool_calls[i])["message_id"] \in Placeholders

-----------------------------------------------------------------------------
(* VoiceAgent: initialize, update_config and process_text *)

\* the parameters process_input declares, and the keywords process_text
\* passes next to the utterance
ProcessInputParametersWithManager == {"context", "memory_tool", "context_manager"}
ProcessInputParameters == {"context", "memory_tool"}
AgentCallKeywords == {"context", "memory_tool", "context_manager"}

\* what the handler of process_text makes of an exception, and a handler that
\* lets it through
ExceptionRaised == "raised"
ExceptionHandled == "error"

AgentUtterances == {"ohayo", "gmail", "reply", "ima nanji", "weather"}

\* what the providers are set to answer: the text and the structured calls
Answers ==
    << [text |-> "plain", native |-> << >>],
       [text |-> "list", native |-> << >>],
       [text |-> "list", native |-> << Request("gmail", {<<"action", "list">>}) >>],
       [text |-> "send", native |-> << >>] >>

\* what initialize may find: the providers that come up, and whether the
\* other components (speech, memory, tools) come up
AgentAvailabilities ==
    { [n \in ProviderNames |-> TRUE], [n \in ProviderNames |-> FALSE],
      [n \in ProviderNames |-> n = "ollama"] }

Init ==
    /\ is_initialized = FALSE
    /\ messages = << >>
    /\ latest_email_id = None
    /\ now = 0
    /\ llm_initialized = FALSE
    /\ providers = NoProviders
    /\ config = DefaultConfig
    /\ environ \in Environments
    /\ rules = LoadRules
    /\ initialized = FALSE
    /\ tools_initialized = FALSE
    /\ turns = 0
    /\ obs = NoObs
    /\ max_messages = MaxMessages
    /\ email_state = NewEmailState
    /\ connection_of = NoConnections
    /\ status_callback = None
    /\ active_connections = {}
    /\ pc = NoHandlers
    /\ auth_states = NoAuthStates

\* VoiceAgent.initialize: new components, each initialised
AgentInitialize ==
    /\ turns < MaxTurns
    /\ \E avail \in AgentAvailabilities, others \in BOOLEAN :
          LET fresh == [config |-> DefaultConfig, providers |-> NoProviders,
                        is_initialized |-> FALSE]
              r == LLMInitialize(fresh, environ, avail)
          IN  /\ config' = r.config
              /\ providers' = r.providers
              /\ llm_initialized' = r.is_initialized
              /\ tools_initialized' = others
              /\ is_initialized' = (is_initialized \/ (~r.raised /\ others))
              /\ obs' = [op |-> "initialize", raised |-> (r.raised \/ ~others)]
    /\ messages' = NewContext(now)
    /\ latest_email_id' = None
    /\ rules' = LoadRules
    /\ initialized' = TRUE
    /\ max_messages' = MaxMessages
    /\ email_state' = NewEmailState
    /\ turns' = turns + 1
    /\ UNCHANGED <<now, environ, connection_of, EndpointVars>>

\* VoiceAgent.update_config with an "llm" section, once the components exist
AgentUpdateConfig ==
    /\ initialized
    /\ DoUpdateConfig

\* tool_results.get("gmail_metadata"): the metadata the gmail tool returns
\* holds latest_email_id and no shown_email_ids
GmailMetadata(results) ==
    [present |-> HasItem(results, "gmail_metadata"), shown_email_ids |-> << >>]

\* _update_email_state_from_results: the email_state it leaves
UpdateEmailStateFromResults(state, gmail_metadata) ==
    IF gmail_metadata.present /\ Len(gmail_metadata.shown_email_ids) > 0
    THEN UpdateEmailState(state, "list", gmail_metadata.shown_email_ids,
                          Len(gmail_metadata.shown_email_ids))
    ELSE state

\* the first result of the dict that is not metadata, as text
FirstResult(results) ==
    IF results = << >> THEN Text("completed", "", 0, None) ELSE results[1].value

\* what process_text leaves and returns
Return(u, a, fails, status, path, reply, msgs, latest, log, gen, synthesized, state) ==
    /\ messages' = msgs
    /\ latest_email_id' = latest
    /\ email_state' = state
    /\ obs' = [op |-> "process_text", u |-> u, answer |-> a, fails |-> fails,
               turn |-> turns + 1, status |-> status, path |-> path, reply |-> reply,
               dispatched |-> log, invoked |-> gen, synthesized |-> synthesized]

\* the end of every path of process_text that has a reply: the assistant
\* message, then memory and speech, whose failure reaches the handler
Reply(u, a, fails, path, reply, msgs, latest, log, gen, synthesized, state) ==
    \E side_fails \in BOOLEAN :
        Return(u, a, fails, IF side_fails THEN ExceptionHandled ELSE "text", path,
               IF side_fails THEN Text("agent_error", "", 0, None) ELSE reply,
               AddMessage(msgs, "assistant", reply, now, turns + 1),
               latest, log, gen, synthesized, state)

\* process_text, the rule paths
RulePaths(u, a, fails, m1, held) ==
    IF held.action = Absent
    THEN \E pick \in 1..MaxVariants, memory \in BOOLEAN, info \in PersonalInfos :
            LET rule == ProcessInput(rules, initialized, u, pick, memory, info)
            IN  Reply(u, a, fails, "canned", rule.response, m1, latest_email_id,
                      << >>, << >>, FALSE, email_state)
    ELSE LET rule == ProcessInput(rules, initialized, u, 1, FALSE, {})
         IN  IF rule.is_final
             THEN Reply(u, a, fails, "rule", rule.response, m1, latest_email_id,
                        << >>, << >>, FALSE, email_state)
             ELSE \E outcomes \in [DOMAIN rule.tool_calls -> ToolOutcomes] :
                     LET ex == ExecuteTools(rule.tool_calls, latest_email_id,
                                            tools_initialized, outcomes, NoResults)
                     IN  Reply(u, a, fails, "rule_actions", FirstResult(ex.results), m1,
                               ExtractAndStoreEmailIds(ex.results, latest_email_id),
                               ex.log, << >>, FALSE,
                               UpdateEmailStateFromResults(email_state, GmailMetadata(ex.results)))

\* process_text, the generative path
GenerativePath(u, a, fails, m1) ==
    \E order \in Orders(AllMatches(BackendText(Answers[a].text))) :
        LET llm_response == ProcessWithTools(LLM, m1, latest_email_id, fails,
                                             Answers[a].text, Answers[a].native, order)
        IN  IF llm_response.raised
            THEN Return(u, a, fails, ExceptionHandled, "error",
                        Text("agent_error", "", 0, None), m1, latest_email_id,
                        << >>, << >>, FALSE, email_state)
            ELSE IF llm_response.tool_calls = << >>
            THEN Reply(u, a, fails, "generative", llm_response.response, m1,
                       latest_email_id, << >>, llm_response.gen.invoked, FALSE, email_state)
            ELSE \E outcomes \in [DOMAIN llm_response.tool_calls -> ToolOutcomes],
                    synthesis_fails \in 0..MaxFails :
                    LET ex == ExecuteTools(llm_response.tool_calls, latest_email_id,
                                           tools_initialized, outcomes, NoResults)
                        final == GenerateFinalResponse(LLM, synthesis_fails)
                    IN  Reply(u, a, fails, "generative_actions", final.response, m1,
                              ExtractAndStoreEmailIds(ex.results, latest_email_id),
                              ex.log, llm_response.gen.invoked, TRUE,
                              UpdateEmailStateFromResults(email_state, GmailMetadata(ex.results)))

\* VoiceAgent.process_text: a is what the providers are set to answer and
\* fails how many provider calls fail before one answers
ProcessTextOn(conn) ==
    /\ turns < MaxTurns
    /\ \E u \in AgentUtterances, a \in DOMAIN Answers, fails \in {0, MaxFails} :
          IF ~is_initialized
          THEN Return(u, a, fails, "raised", "not_initialized", Text("none", "", 0, None),
                      messages, latest_email_id, << >>, << >>, FALSE, email_state)
          ELSE LET m1 == AddMessage(messages, "user", Text("user", u, 0, None), now,
                                    turns + 1)
                   held == MatchRule(rules, u, NoRule)
               IN  IF ~(AgentCallKeywords \subseteq ProcessInputParameters)
                   THEN Return(u, a, fails, ExceptionHandled, "error",
                               Text("agent_error", "", 0, None), m1, latest_email_id,
                               << >>, << >>, FALSE, email_state)
                   ELSE IF /\ initialized /\ held.name # Absent
                           /\ (held.action = Absent => held.responses > 0)
                   THEN RulePaths(u, a, fails, m1, held)
                   ELSE GenerativePath(u, a, fails, m1)
    /\ connection_of' = [connection_of EXCEPT ![turns + 1] = conn]
    /\ turns' = turns + 1
    /\ UNCHANGED <<max_messages, is_initialized, now, llm_initialized, providers, config,
                   environ, rules, initialized, tools_initialized, auth_states>>

\* process_text called by websocket_chat_endpoint, the handler of one
\* connection
ProcessText ==
    /\ \E conn \in Connections : ProcessTextOn(conn)
    /\ UNCHANGED <<status_callback, active_connections, pc>>

Next ==
    \/ AgentInitialize
    \/ AgentUpdateConfig
    \/ ProcessText

Spec == Init /\ [][Next]_vars

-----------------------------------------------------------------------------
(* Claims about the Turn *)

Returned == obs.op = "process_text" /\ obs.status # "raised"
Held == MatchRule(rules, obs.u, NoRule)
TurnsOf(role) ==
    Cardinality({i \in DOMAIN messages :
                    messages[i].turn = obs.turn /\ messages[i].role = role})
GenericFailure(reply) == reply.kind \in {"agent_error", "llm_error"}

\* C2: every path of process_text that returns leaves exactly one new user
\* turn and exactly one new assistant turn for the utterance.
C2_OneTurnRecorded ==
    Returned => (TurnsOf("user") = 1 /\ TurnsOf("assistant") = 1)

\* C3: an utterance matching a rule with canned responses and no action gets
\* a reply that is one of the rule's response variants, possibly
\* personalised, with no action dispatched and no provider called.
C3_CannedReply ==
    (Returned /\ Held.name # Absent /\ Held.action = Absent) =>
        /\ obs.status = "text"
        /\ obs.reply.kind \in {"canned", "personal"}
        /\ obs.reply.tag = Held.name
        /\ obs.reply.kind = "canned" => obs.reply.n \in 1..Held.responses
        /\ obs.dispatched = << >>
        /\ obs.invoked = << >>

\* the providers are set to answer with one well-formed marked action
OneMarkedAction ==
    /\ Answers[obs.answer].text = "list" /\ Answers[obs.answer].native = << >>
    /\ llm_initialized /\ obs.fails < Len(Attempts(LLM))

\* C4: an utterance matched by no rule, answered with exactly one well-formed
\* marked action, has that one request dispatched once, the synthesis pass
\* run, and latest_email_id set to the id of the tool result's metadata.
C4_OneActionTurn ==
    (Returned /\ Held.name = Absent /\ OneMarkedAction) =>
        /\ Len(obs.dispatched) = 1
        /\ obs.synthesized
        /\ obs.dispatched[1].metadata \notin {Absent, None}
              => latest_email_id = obs.dispatched[1].metadata

NoProviderAnswers ==
    \/ \A n \in ProviderNames : ~Healthy(n)
    \/ obs.fails >= Len(Attempts(LLM))

-----------------------------------------------------------------------------
(* The Conversation State on its own: a ContextManager built with a chosen
   max_messages, its appends, its clock and its listing state *)

MaxCount == 2
MaxSystem == 1
MaxAppends == 2
MaxClock == 2
MaxShown == 2

\* gmail_metadata as _update_email_state_from_results may be handed it: no
\* metadata, metadata without ids, and metadata with the ids of a page
GmailMetadatas ==
    { [present |-> FALSE, shown_email_ids |-> << >>],
      [present |-> TRUE, shown_email_ids |-> << >>],
      [present |-> TRUE, shown_email_ids |-> <<"id1">>],
      [present |-> TRUE, shown_email_ids |-> <<"id1", "id2">>] }

SystemCount == Len(SelectSeq(messages, IsSystem))

Init_Context ==
    /\ is_initialized = FALSE
    /\ messages = << >>
    /\ latest_email_id = None
    /\ now = 0
    /\ llm_initialized = FALSE
    /\ providers = NoProviders
    /\ config = DefaultConfig
    /\ environ = NoEnvironment
    /\ rules = LoadRules
    /\ initialized = FALSE
    /\ tools_initialized = FALSE
    /\ turns = 0
    /\ obs = NoObs
    /\ max_messages \in 1..MaxCount
    /\ email_state = NewEmailState
    /\ connection_of = NoConnections
    /\ status_callback = None
    /\ active_connections = {}
    /\ pc = NoHandlers
    /\ auth_states = NoAuthStates

ContextUnchanged ==
    UNCHANGED <<is_initialized, llm_initialized, providers, config, environ, rules,
                initialized, tools_initialized, max_messages, connection_of, EndpointVars>>

\* ContextManager.initialize: the system message, no clean-up
DoContextInitialize ==
    /\ SystemCount < MaxSystem
    /\ messages' = Append(messages, Message("system", Text("system", "", 0, None), now, 0))
    /\ obs' = [op |-> "initialize"]
    /\ UNCHANGED <<latest_email_id, now, turns, email_state>>
    /\ ContextUnchanged

\* ContextManager.add_system_message: no clean-up either
DoAddSystemMessage ==
    /\ SystemCount < MaxSystem
    /\ messages' = Append(messages, Message("system", Text("system", "added", 0, None), now, 0))
    /\ obs' = [op |-> "add_system_message"]
    /\ UNCHANGED <<latest_email_id, now, turns, email_state>>
    /\ ContextUnchanged

\* ContextManager.add_user_message; turns numbers the appends
DoAddUserMessage ==
    /\ turns < MaxAppends
    /\ messages' = CleanupMessages(
                      Append(messages, Message("user", Text("user", "", 0, None), now, turns + 1)),
                      now, max_messages)
    /\ turns' = turns + 1
    /\ obs' = [op |-> "add_user_message"]
    /\ UNCHANGED <<latest_email_id, now, email_state>>
    /\ ContextUnchanged

\* ContextManager.add_assistant_message
DoAddAssistantTurn ==
    /\ turns < MaxAppends
    /\ messages' = CleanupMessages(
                      Append(messages, Message("assistant", Text("reply", "", 0, None), now, turns + 1)),
                      now, max_messages)
    /\ turns' = turns + 1
    /\ obs' = [op |-> "add_assistant_message"]
    /\ UNCHANGED <<latest_email_id, now, email_state>>
    /\ ContextUnchanged

\* the clock of datetime.now() moves on
DoAdvanceClock ==
    /\ now < MaxClock
    /\ now' = now + 1
    /\ obs' = [op |-> "clock"]
    /\ UNCHANGED <<messages, latest_email_id, turns, email_state>>
    /\ ContextUnchanged

\* ContextManager.reset_context: the system messages stay
DoResetContext ==
    /\ turns > 0
    /\ messages' = SelectSeq(messages, IsSystem)
    /\ turns' = 0
    /\ obs' = [op |-> "reset_context"]
    /\ UNCHANGED <<latest_email_id, now, email_state>>
    /\ ContextUnchanged

\* VoiceAgent._update_email_state_from_results
DoUpdateEmailStateFromResults ==
    /\ Len(email_state.shown_email_ids) < MaxShown
    /\ \E gmail_metadata \in GmailMetadatas :
          /\ email_state' = UpdateEmailStateFromResults(email_state, gmail_metadata)
          /\ obs' = [op |-> "update_email_state_from_results",
                     metadata |-> gmail_metadata, before |-> email_state]
    /\ UNCHANGED <<messages, latest_email_id, now, turns>>
    /\ ContextUnchanged

\* ContextManager.reset_email_state
DoResetEmailState ==
    /\ email_state # NewEmailState
    /\ email_state' = NewEmailState
    /\ obs' = [op |-> "reset_email_state"]
    /\ UNCHANGED <<messages, latest_email_id, now, turns>>
    /\ ContextUnchanged

\* ContextManager.cleanup
DoContextCleanup ==
    /\ obs.op # "cleanup"
    /\ messages' = << >>
    /\ latest_email_id' = None
    /\ email_state' = NewEmailState
    /\ turns' = 0
    /\ obs' = [op |-> "cleanup"]
    /\ UNCHANGED now
    /\ ContextUnchanged

Next_Context ==
    \/ DoContextInitialize
    \/ DoAddSystemMessage
    \/ DoAddUserMessage
    \/ DoAddAssistantTurn
    \/ DoAdvanceClock
    \/ DoResetContext
    \/ DoUpdateEmailStateFromResults
    \/ DoResetEmailState
    \/ DoContextCleanup

SpecContext == Init_Context /\ [][Next_Context]_vars

-----------------------------------------------------------------------------
(* Claims about the Conversation State *)

NonSystem == SelectSeq(messages, NotSystem)

\* C11: while the time window evicts nothing, after any sequence of user and
\* assistant appends the retained non-system turns are exactly the
\* min(appended, max_messages) most recent ones.
C11_RetainsMostRecent ==
    now < ContextWindowHours =>
        /\ Len(NonSystem) = Min({turns, max_messages})
        /\ \A i \in DOMAIN NonSystem : NonSystem[i].turn = turns - Len(NonSystem) + i


ExplicitReset(op) == op \in {"reset_email_state", "cleanup"}

\* C15: email_state.current_offset never decreases except through an explicit
\* reset, and each listing update appends the ids it is given to
\* shown_email_ids and raises the offset by exactly their number.
C15_OffsetMonotone ==
    [][/\ ExplicitReset(obs'.op) \/ email_state'.current_offset >= email_state.current_offset
       /\ obs'.op = "update_email_state_from_results" =>
             LET shown == IF obs'.metadata.present
                          THEN obs'.metadata.shown_email_ids ELSE << >>
             IN  /\ email_state'.shown_email_ids = email_state.shown_email_ids \o shown
                 /\ email_state'.current_offset = email_state.current_offset + Len(shown)]_vars

\* a second listing update has raised an offset that was already positive
C15_Witness ==
    /\ obs.op = "update_email_state_from_results"
    /\ obs.before.current_offset > 0
    /\ email_state.current_offset > obs.before.current_offset
    /\ Len(email_state.shown_email_ids) = email_state.current_offset

-----------------------------------------------------------------------------
(* HybridLLM._parse_tool_calls on its own, over generated backend texts *)

\* the "name" item of a generated object: none, a tool name, an empty name
NameItems == { << >>, <<KV("name", "gmail")>>, <<KV("name", "")>> }

\* the parameter items of a generated object
ParameterItems ==
    { << >>,
      <<KV("action", "list")>>,
      <<KV("action", "list"), KV("max_results", "5")>>,
      <<KV("action", "send"), KV("to", "x"), KV("body", "b")>>,
      <<KV("action", "list"), Item("max_results", "5", "odd")>>,
      <<Item("action", "list", "bare"), KV("max_results", "5")>> }

\* the body of a generated object: the items at the top level, or inside a
\* "parameters" object
Bodies ==
    ParameterItems \cup {<<PARAMETERS, LB>> \o items \o <<RB>> : items \in ParameterItems}

\* the backend texts: prose, the marker, an object with or without a broken
\* fragment after its name, with or without its final brace, and a tail
SingleContents ==
    { <<PROSE, MARK, LB>> \o name \o broken \o body \o close \o tail :
        name \in NameItems, broken \in {<< >>, <<BAD>>}, body \in Bodies,
        close \in {<< >>, <<RB>>}, tail \in {<< >>, <<PROSE>>} }

\* the objects of a text with two markers: complete, without nesting
FlatObjects ==
    { <<LB, KV("name", "gmail"), KV("action", "list"), RB>>,
      <<LB, KV("name", "gmail"), KV("action", "send"), KV("to", "x"), KV("body", "b"), RB>> }

\* backend texts with two markers
PairContents ==
    { <<PROSE, MARK>> \o a \o <<PROSE, MARK>> \o b : a \in FlatObjects, b \in FlatObjects }

Contents == SingleContents \cup PairContents

Init_Parse ==
    /\ is_initialized = FALSE
    /\ messages = << >>
    /\ latest_email_id = None
    /\ now = 0
    /\ llm_initialized = FALSE
    /\ providers = NoProviders
    /\ config = DefaultConfig
    /\ environ = NoEnvironment
    /\ rules = LoadRules
    /\ initialized = FALSE
    /\ tools_initialized = FALSE
    /\ turns = 0
    /\ obs = NoObs
    /\ max_messages = MaxMessages
    /\ email_state = NewEmailState
    /\ connection_of = NoConnections
    /\ status_callback = None
    /\ active_connections = {}
    /\ pc = NoHandlers
    /\ auth_states = NoAuthStates

\* HybridLLM._parse_tool_calls(content), the matches enumerated in some order
DoParseToolCalls ==
    /\ \E content \in Contents :
       \E order \in Orders(AllMatches(content)) :
          obs' = [op |-> "parse_tool_calls", content |-> content, order |-> order,
                  out |-> ParseToolCalls(order)]
    /\ UNCHANGED <<is_initialized, messages, latest_email_id, now, llm_initialized,
                   providers, config, environ, rules, initialized, tools_initialized,
                   turns, max_messages, email_state, connection_of, EndpointVars>>

Next_Parse == DoParseToolCalls

SpecParse == Init_Parse /\ [][Next_Parse]_vars

-----------------------------------------------------------------------------
(* Claims about _parse_tool_calls *)

Parsed == obs.op = "parse_tool_calls"

\* the object after the marker, when the text ends with it
MarkedObject == SubSeq(obs.content, 3, Len(obs.content))

\* what strict parsing returns for the marked object with one brace appended
StrictOfCompleted == JsonLoads(MarkedObject \o <<RB>>)

Returns(dict) == \E i \in DOMAIN obs.out : obs.out[i] = dict

\* C12: for a marked object that is correct except that its final closing
\* brace is missing, _parse_tool_calls returns the Action Request that strict
\* parsing of the completed object returns, name and all parameters.
C12_MissingBraceRecovered ==
    (Parsed /\ StrictOfCompleted.ok /\ StrictOfCompleted.dict.hasName
            /\ StrictOfCompleted.dict.name # "") =>
        Returns(StrictOfCompleted.dict)

\* the fields both salvage passes know
KnownFields == FixJsonFields \cap ComponentFields

\* a candidate that strict parsing rejects, as it is and with its missing
\* braces appended
Unparsable(m) ==
    LET missing == Count(m, "{") - Count(m, "}")
    IN  /\ ~JsonLoads(m).ok
        /\ ~JsonLoads(m \o Repeat(RB, IF missing > 0 THEN missing ELSE 0)).ok

HasField(m, k) == \E i \in DOMAIN m : m[i].k = k
NamesIn(m) == {m[i].v : i \in {j \in DOMAIN m : m[j].k = "name" /\ m[j].f = "plain"}} \ {""}

\* C13: for a candidate with a tool name and known fields that strict parsing
\* rejects even after brace completion, a returned Action Request carries the
\* tool name and every known field present in the candidate.
C13_SalvageKeepsKnownFields ==
    Parsed =>
        \A m \in AllMatches(obs.content) :
            (Unparsable(m) /\ NamesIn(m) # {}) =>
                \E i \in DOMAIN obs.out :
                    /\ NameOf(obs.out[i]) \in NamesIn(m)
                    /\ \A k \in KnownFields :
                          HasField(m, k) => ParametersOf(obs.out[i])[k] # Absent

\* C14: every Action Request _parse_tool_calls returns has a tool name, and a
\* candidate is absent from the result only when no tool name can be
\* recovered from it.
C14_EveryRequestNamed ==
    Parsed =>
        /\ \A i \in DOMAIN obs.out : NameOf(obs.out[i]) \notin {Absent, ""}
        /\ \A m \in AllMatches(obs.content) :
              NamesIn(m) # {} => \E i \in DOMAIN obs.out : NameOf(obs.out[i]) \in NamesIn(m)

-----------------------------------------------------------------------------
(* Claims about sessions, the stored entity id and the dispatch order *)

\* C16: a turn recorded while processing one connection's utterance is never
\* in the history that the processing of another connection's utterance reads.
C16_SessionsIsolated ==
    (obs.op = "process_text" /\ obs.status # "raised") =>
        \A i \in DOMAIN messages :
            messages[i].turn # 0 =>
                connection_of[messages[i].turn] = connection_of[obs.turn]


\* the gmail executions of a dispatch log that yielded an id, in their
\* metadata or quoted in their result text
LastOf(S) == CHOOSE x \in S : \A y \in S : y <= x
GmailEntries(log) == {i \in DOMAIN log : log[i].name = "gmail"}
Producing(log) ==
    {i \in GmailEntries(log) :
        log[i].executed /\ (log[i].metadata \notin {Absent, None} \/ log[i].result.id # None)}
ProducedBy(entry) ==
    IF entry.metadata \notin {Absent, None} THEN entry.metadata ELSE entry.result.id

\* C17: after the extraction the stored id is the one yielded by
\* the most recent gmail execution of the Turn that yielded an id
C17_MostRecentExecution ==
    (obs.op = "extract_and_store_email_ids" /\ Producing(obs.log) # {}) =>
        latest_email_id = ProducedBy(obs.log[LastOf(Producing(obs.log))])

\* C18: the reply of a rule-built list-then-reply pair is dispatched with the
\* id that the listing of the same dispatch loop yielded
C18_ReplyUsesListedId ==
    (/\ obs.op = "execute_tools"
     /\ obs.calls = SuggestGmailToolCalls("reply")
     /\ Len(obs.out.log) = 2
     /\ Producing(SubSeq(obs.out.log, 1, 1)) # {}) =>
        obs.out.log[2].parameters["message_id"] = ProducedBy(obs.out.log[1])


-----------------------------------------------------------------------------
(* Claims about the providers one generation request reaches *)

\* C19: within one call of _generate_with_fallback no provider is invoked
\* twice, whatever the primary and the secondary provider are
C19_EachProviderOnce ==
    (Generated /\ llm_initialized) =>
        \A i, j \in DOMAIN Invoked : i # j => Invoked[i] # Invoked[j]

\* initialize found privacy mode enabled and the local provider available
PrivacyModeLocal ==
    /\ llm_initialized
    /\ config.privacy_mode /\ environ["PRIVACY_MODE"] = "true"
    /\ config.primary_provider = "ollama" /\ config.fallback_provider = None
    /\ Healthy("ollama")

\* C20: with privacy mode enabled and the local provider available at
\* initialization, a generation request reaches no provider but ollama
C20_PrivacyModeStaysLocal ==
    (Generated /\ PrivacyModeLocal) =>
        \A i \in DOMAIN Invoked : Invoked[i] = "ollama"


-----------------------------------------------------------------------------
(* Claims about ties between rules and about add_rule *)

MatchingIn(rs, u) == {i \in DOMAIN rs : Matches(rs[i], u)}
TopIn(rs, u) ==
    CHOOSE p \in {rs[i].priority : i \in MatchingIn(rs, u)} :
        \A i \in MatchingIn(rs, u) : rs[i].priority <= p
FirstOfTop(rs, u) == Min({i \in MatchingIn(rs, u) : rs[i].priority = TopIn(rs, u)})
Tied(rs, u) ==
    \E i, j \in MatchingIn(rs, u) :
        i # j /\ rs[i].priority = TopIn(rs, u) /\ rs[j].priority = TopIn(rs, u)

\* add_rule left the selection of every utterance the new rule does not match
AddRuleKeepsSelection ==
    obs.op = "add_rule" =>
        \A u \in Utterances :
            ~Matches(obs.added, u) =>
                MatchRule(rules, u, NoRule) = MatchRule(obs.before, u, NoRule)

-----------------------------------------------------------------------------
(* Claims about what the clean-up of the Conversation State keeps *)

SystemTurns(msgs) == SelectSeq(msgs, IsSystem)
Appends == {"add_user_message", "add_assistant_message"}

\* C22: no add_user_message, add_assistant_message, add_system_message or
\* reset_context removes a system turn: the system turns held before the
\* step are still held after it, in the same order
C22_SystemTurnsKept ==
    [][obs'.op \in Appends \cup {"add_system_message", "reset_context"} =>
          IsPrefix(SystemTurns(messages), SystemTurns(messages'))]_vars

\* an append evicted a user or assistant turn while a system turn older than
\* the window was held, and the system turn is still there
C22_Witness ==
    /\ obs.op \in Appends
    /\ Len(NonSystem) < turns
    /\ \E i \in DOMAIN messages :
          IsSystem(messages[i]) /\ messages[i].ts <= now - ContextWindowHours


\* C23: immediately after add_user_message or add_assistant_message returns,
\* no user or assistant turn held is older than the time window, whether or
\* not the count bound was reached: every such turn is younger than the
\* window, a turn exactly as old as the window being evicted too
C23_NoTurnOlderThanWindow ==
    obs.op \in Appends =>
        \A i \in DOMAIN messages :
            NotSystem(messages[i]) => messages[i].ts > now - ContextWindowHours

\* an append evicted a turn by age while the count bound was not reached
C23_Witness ==
    /\ obs.op \in Appends
    /\ Len(messages) < max_messages
    /\ Len(NonSystem) < turns
    /\ now >= ContextWindowHours


-----------------------------------------------------------------------------
(* Claims about the order and the number of the requests extracted *)

\* the positions of the markers of a text that are followed by an object
Markers(content) ==
    {p \in 1..(Len(content) - 1) : content[p].k = "TOOL_CALL:" /\ content[p + 1].k = "{"}

\* the requests the candidates captured at the marker at p give
RequestsAt(content, p) ==
    Range(ParseMatch(SubSeq(content, p + 1, PatternEnd(content, p + 1))))
    \cup Range(ParseMatch(SubSeq(content, p + 1, MultilinePatternEnd(content, p + 1))))

FirstMarker(content, request) ==
    Min({p \in Markers(content) : request \in RequestsAt(content, p)})

\* C24: the requests returned stand in the order in which their markers
\* first occur in the text
C24_MarkerOrder ==
    Parsed =>
        \A i, j \in DOMAIN obs.out :
            i < j => FirstMarker(obs.content, obs.out[i]) <= FirstMarker(obs.content, obs.out[j])

\* C26: one marker occurrence yields at most one request: a marked object
\* is not returned both fully parsed and salvaged with fewer parameters
C26_OneRequestPerMarker ==
    (Parsed /\ Cardinality(Markers(obs.content)) = 1) => Len(obs.out) <= 1


\* C25: with latest_email_id unset and an id quoted in a recent turn, every
\* placeholder of an action handed to _execute_tools is replaced by the id
\* of the most recent such turn, as it is for the actions process_with_tools
\* returns
C25_HistoryIdOnEveryPath ==
    (Executed /\ tools_initialized /\ latest_email_id = None
     /\ HistoryId(messages) # None) =>
        \A i \in DOMAIN Log :
            (Log[i].name = "gmail"
             /\ ParametersOf(obs.calls[i])["message_id"] \in Placeholders) =>
                Log[i].parameters["message_id"] = HistoryId(messages)


\* the results of the actions in the result set a dispatch loop returns
ActionResults(results) == {k \in DOMAIN results : results[k].value.kind # "metadata"}

\* C27: the result set _execute_tools returns holds one result for every
\* action it dispatched, that of an earlier action included when a later
\* action names the same tool
C27_EveryResultKept ==
    Executed =>
        /\ Cardinality(ActionResults(obs.out.results))
              >= Cardinality({i \in DOMAIN Log : Log[i].executed})
        /\ \A i \in DOMAIN Log :
              Log[i].executed =>
                  \E k \in ActionResults(obs.out.results) :
                      obs.out.results[k].value = Log[i].result


-----------------------------------------------------------------------------
(* Claims about switching the provider and the model *)

ValueOf(upd, key) == (CHOOSE p \in upd : p[1] = key)[2]

\* C30: after update_config with primary_provider P and model M has
\* returned without raising, the configured primary provider is P and the
\* model of provider P is M
C30_SwitchApplied ==
    (/\ obs.op = "update_config" /\ ~obs.raised
     /\ HasKey(obs.update, "primary_provider") /\ HasKey(obs.update, "model")) =>
        /\ config.primary_provider = ValueOf(obs.update, "primary_provider")
        /\ providers[ValueOf(obs.update, "primary_provider")].model
              = ValueOf(obs.update, "model")


-----------------------------------------------------------------------------
(* gmail_auth.py: the pending authorisations, state token -> session id *)

\* gmail_auth_callback that keeps the token when the exchange fails
GmailAuthCallbackKeepsFailed(states, state, fails) ==
    LET session_id == states[state]
    IN  IF session_id = Absent
        THEN [auth_states |-> states, status_code |-> 400, saved |-> None]
        ELSE IF fails
        THEN [auth_states |-> states, status_code |-> 500, saved |-> None]
        ELSE [auth_states |-> [states EXCEPT ![state] = Absent], status_code |-> 200,
              saved |-> session_id]

\* gmail_auth_callback(code, state): the map it leaves, the status of its
\* page and the session whose token files it wrote; fails is whether
\* building the flow, fetch_token or writing the files raises.  The handler
\* has no await, so no other handler runs between its get and its del.
GmailAuthCallback(states, state, fails) ==
    LET session_id == states[state]
    IN  IF session_id = Absent
        THEN [auth_states |-> states, status_code |-> 400, saved |-> None]
        ELSE IF fails
        THEN [auth_states |-> [states EXCEPT ![state] = Absent], status_code |-> 500,
              saved |-> None]
        ELSE [auth_states |-> [states EXCEPT ![state] = Absent], status_code |-> 200,
              saved |-> session_id]

Init_Auth ==
    /\ is_initialized = FALSE
    /\ messages = << >>
    /\ latest_email_id = None
    /\ now = 0
    /\ llm_initialized = FALSE
    /\ providers = NoProviders
    /\ config = DefaultConfig
    /\ environ \in Environments
    /\ rules = LoadRules
    /\ initialized = FALSE
    /\ tools_initialized = FALSE
    /\ turns = 0
    /\ obs = NoObs
    /\ max_messages = MaxMessages
    /\ email_state = NewEmailState
    /\ connection_of = NoConnections
    /\ status_callback = None
    /\ active_connections = {}
    /\ pc = NoHandlers
    /\ auth_states = NoAuthStates

AuthUnchanged ==
    UNCHANGED <<is_initialized, messages, latest_email_id, now, llm_initialized,
                providers, config, environ, rules, initialized, tools_initialized,
                max_messages, email_state, connection_of, status_callback,
                active_connections, pc>>

\* gmail_auth_start: without credentials, or when building the flow raises,
\* it answers 500 before a state exists; else authorization_url returns a
\* random state no earlier call returned (turns counts the states issued) and
\* the handler stores it
DoGmailAuthStart ==
    /\ \E session_id \in Sessions, configured \in BOOLEAN :
          IF configured /\ turns < MaxStates
          THEN /\ auth_states' = [auth_states EXCEPT ![turns + 1] = session_id]
               /\ turns' = turns + 1
               /\ obs' = [op |-> "gmail_auth_start", status_code |-> 200,
                          state |-> turns + 1, session_id |-> session_id]
          ELSE /\ ~configured
               /\ obs' = [op |-> "gmail_auth_start", status_code |-> 500,
                          state |-> None, session_id |-> session_id]
               /\ UNCHANGED <<auth_states, turns>>
    /\ AuthUnchanged

\* gmail_auth_callback with a state of the request: one the server issued or
\* one it never issued
DoGmailAuthCallback ==
    /\ \E state \in {UnknownState} \cup (1..turns), fails \in BOOLEAN :
          LET r == GmailAuthCallback(auth_states, state, fails)
          IN  /\ auth_states' = r.auth_states
              /\ obs' = [op |-> "gmail_auth_callback", state |-> state,
                         status_code |-> r.status_code, saved |-> r.saved,
                         before |-> auth_states]
    /\ UNCHANGED turns
    /\ AuthUnchanged

Next_Auth ==
    \/ DoGmailAuthStart
    \/ DoGmailAuthCallback

SpecAuth == Init_Auth /\ [][Next_Auth]_vars

\* the states gmail_auth_start has issued so far
Issued == 1..turns

\* C29: a callback accepts a state only if it is pending; when a callback
\* returns, with success or failure, its state is not pending; a state that
\* is not pending (never issued, or used) is answered 400 with the map
\* unchanged; and an issued state that is no longer pending never becomes
\* pending again, so no state is accepted twice.
C29_PendingStateUsedOnce ==
    /\ [](obs.op = "gmail_auth_callback" =>
            /\ auth_states[obs.state] = Absent
            /\ (obs.status_code # 400) = (obs.before[obs.state] # Absent)
            /\ obs.before[obs.state] = Absent =>
                  (obs.status_code = 400 /\ auth_states = obs.before))
    /\ [][\A s \in Issued : auth_states[s] = Absent => auth_states'[s] = Absent]_vars

\* a state that was accepted is presented again and refused, while another
\* state is still pending
C29_Witness ==
    /\ obs.op = "gmail_auth_callback"
    /\ obs.state \in Issued
    /\ obs.status_code = 400
    /\ \E s \in Issued : auth_states[s] # Absent


-----------------------------------------------------------------------------
(* main.py: the voice endpoint, one handler per connection, and process_audio *)

VoiceUnchanged ==
    UNCHANGED <<is_initialized, messages, latest_email_id, now, llm_initialized,
                providers, config, environ, rules, initialized, tools_initialized,
                turns, max_messages, email_state, connection_of, auth_states>>

\* send_status of the closure the agent holds: websocket.send_json on a
\* connection that is closed raises
CanSend(conn) == conn \in active_connections

\* lifespan: the agent is created and initialised before any connection is
\* served; when initialize raises the application does not start
Lifespan ==
    /\ ~initialized
    /\ AgentInitialize

\* websocket_voice_endpoint up to its loop: connect, then the agent's one
\* status_callback is set to the closure of this connection
DoVoiceConnect(c) ==
    /\ is_initialized
    /\ pc[c] = "closed"
    /\ active_connections' = active_connections \cup {c}
    /\ status_callback' = c
    /\ pc' = [pc EXCEPT ![c] = "receive"]
    /\ obs' = [op |-> "connect", from |-> c]
    /\ VoiceUnchanged

\* receive_bytes raises WebSocketDisconnect: the handler takes the connection
\* out of active_connections and ends; status_callback keeps its closure
DoVoiceDisconnect(c) ==
    /\ pc[c] = "receive"
    /\ active_connections' = active_connections \ {c}
    /\ pc' = [pc EXCEPT ![c] = "closed"]
    /\ obs' = [op |-> "disconnect", from |-> c]
    /\ UNCHANGED status_callback
    /\ VoiceUnchanged

\* receive_bytes returns audio and process_audio runs to its first await
\* after the first status notification, stt.transcribe
DoReceiveBytes(c) ==
    /\ pc[c] = "receive"
    /\ IF ~is_initialized
       THEN /\ obs' = [op |-> "process_audio", from |-> c, out |-> "raised"]
            /\ active_connections' = active_connections \ {c}
            /\ pc' = [pc EXCEPT ![c] = "closed"]
       ELSE IF status_callback # None /\ ~CanSend(status_callback)
       THEN /\ obs' = [op |-> "process_audio", from |-> c, out |-> "error"]
            /\ UNCHANGED <<active_connections, pc>>
       ELSE /\ obs' = [op |-> "status", from |-> c, to |-> status_callback,
                       message |-> "recognizing"]
            /\ pc' = [pc EXCEPT ![c] = "transcribe"]
            /\ UNCHANGED active_connections
    /\ UNCHANGED status_callback
    /\ VoiceUnchanged

\* stt.transcribe returns: no text ends process_audio with an error, a text
\* is followed by the second status notification
DoTranscribe(c) ==
    /\ pc[c] = "transcribe"
    /\ \E recognized \in BOOLEAN :
          IF ~recognized \/ (status_callback # None /\ ~CanSend(status_callback))
          THEN /\ obs' = [op |-> "process_audio", from |-> c, out |-> "error"]
               /\ pc' = [pc EXCEPT ![c] = "receive"]
          ELSE /\ obs' = [op |-> "status", from |-> c, to |-> status_callback,
                          message |-> "understanding"]
               /\ pc' = [pc EXCEPT ![c] = "process_text"]
    /\ UNCHANGED <<status_callback, active_connections>>
    /\ VoiceUnchanged

\* process_audio calls process_text and the handler sends the answer to its
\* own websocket
DoVoiceProcessText(c) ==
    /\ pc[c] = "process_text"
    /\ ProcessTextOn(c)
    /\ pc' = [pc EXCEPT ![c] = "receive"]
    /\ UNCHANGED <<status_callback, active_connections>>

Next_Voice ==
    \/ Lifespan
    \/ \E c \in Connections : DoVoiceConnect(c)
    \/ \E c \in Connections : DoVoiceDisconnect(c)
    \/ \E c \in Connections : DoReceiveBytes(c)
    \/ \E c \in Connections : DoTranscribe(c)
    \/ \E c \in Connections : DoVoiceProcessText(c)

SpecVoice == Init /\ [][Next_Voice]_vars

\* C28: every status notification emitted while processing an utterance
\* received on one voice connection is sent to that same connection.
C28_StatusToOwnConnection ==
    obs.op = "status" => obs.to = obs.from

=============================================================================
